---- MODULE Spec2Model ----
(***************************************************************************)
(* Model of BatteryOptimizer.optimize and _calculate_sharpe                *)
(* (src/modules/optimization.py) and of GridConstraintChecker              *)
(* (src/modules/grid_physics.py).                                          *)
(*                                                                         *)
(* Units.  All quantities are exact integers:                              *)
(*   power (solar, load, charge, discharge, limits)   whole kW             *)
(*   price, degradation cost                          0.05 GBP/kWh         *)
(*   time                                             minutes              *)
(*   money                                            kW * price * minutes *)
(*   efficiency                                       [n, d], a ratio of   *)
(*                                                    perfect squares      *)
(*   state of charge                                  kWh * SocScale(eta)  *)
(* A float quotient x / y is kept as the pair [num |-> x, den |-> y]; a    *)
(* zero denominator is what numpy reports as nan or inf.                   *)
(*                                                                         *)
(* linprog is a library call.  It is modelled by its contract on the grid  *)
(* of whole-kW schedules: success with SOME minimiser of c.x over the      *)
(* feasible grid points, or failure with the solver's message when there   *)
(* is none.  Every feasible point bounds charge and discharge by power_kw, *)
(* so the problem is never unbounded.  The library is deterministic: the   *)
(* same problem solved again gives the same answer.                        *)
(*                                                                         *)
(* rng is the state of numpy's global random generator, which the market   *)
(* data module seeds and draws from; solve_time_ms is a wall-clock reading.*)
(* heap is the store of the objects that concurrent calls can share (the    *)
(* optimizer, the input sequences, the lists of the results), by address;  *)
(* it is None where a single call runs on its own.                         *)
(*                                                                         *)
(* Where float64 rounding decides the outcome (the Sharpe ratio, the first *)
(* state-of-charge point) the arithmetic is IEEE-754 binary64, computed on *)
(* 16-bit limbs and rounded once per operation to nearest, ties to even.   *)
(***************************************************************************)
EXTENDS Integers, Sequences, FiniteSets, TLC

VARIABLES args, pc, lp, sol, result, error, prev, rng, heap

vars == <<args, pc, lp, sol, result, error, prev, rng, heap>>

---------------------------------------------------------------------------
(* Bounds of the model *)

MaxN == 2          \* longest input series
MaxGridKw == 3     \* charge / discharge grid explored by the solver: 0..MaxGridKw
MaxReturns == 3    \* longest series given to _calculate_sharpe
MaxConcurrentN == 1     \* longest horizon of the calls that run concurrently
MaxDepth == 5      \* nested fetch_agile_prices calls the interpreter allows

(* Program constants *)

timestep_minutes == 15      \* BatteryOptimizer.__init__ default

---------------------------------------------------------------------------
(* Input domains *)

SolarValues == {0, 3}
LoadValues == {0, 1}
PriceValues == {3, 6}
LimitValues == {1, 3}
DegradationValues == {1, 2}

Eff(n, d) == [n |-> n, d |-> d]

BatteryAsset(cap, pow, eff, soc) ==
    [capacity_kwh |-> cap, power_kw |-> pow, efficiency |-> eff, initial_soc_pct |-> soc]

ValidAssets ==
    {BatteryAsset(1, pow, eff, soc) :
        pow \in {1, 2}, eff \in {Eff(1, 1), Eff(1, 4)}, soc \in {0, 50, 100}}

BaseAsset == BatteryAsset(1, 2, Eff(1, 1), 50)

\* one field of a valid asset moved outside its documented range
InvalidAssets ==
    {BatteryAsset(cap, 2, Eff(1, 1), 50) : cap \in {0, -1}}
    \cup {BatteryAsset(1, pow, Eff(1, 1), 50) : pow \in {0, -1}}
    \cup {BatteryAsset(1, 2, Eff(4, 1), 50)}
    \cup {BatteryAsset(1, 2, Eff(1, 1), 150)}

Assets == ValidAssets \cup InvalidAssets

AssetValid(a) ==
    /\ a.capacity_kwh > 0
    /\ a.power_kw > 0
    /\ a.efficiency.n > 0 /\ a.efficiency.n <= a.efficiency.d
    /\ a.initial_soc_pct >= 0 /\ a.initial_soc_pct <= 100

LengthsDiffer(call) ==
    \/ Len(call.load_kw) # Len(call.solar_kw)
    \/ Len(call.price_gbp_kwh) # Len(call.solar_kw)

Call(asset, solar, load, price, limit, deg) ==
    [asset |-> asset, solar_kw |-> solar, load_kw |-> load, price_gbp_kwh |-> price,
     grid_export_limit_kw |-> limit, degradation_cost_gbp_kwh |-> deg]

\* calls whose three series have one length, for every asset
MatchedCall(call) ==
    \E n \in 0..MaxN :
    \E asset \in Assets, solar \in [1..n -> SolarValues], load \in [1..n -> LoadValues],
       price \in [1..n -> PriceValues], limit \in LimitValues, deg \in DegradationValues :
        call = Call(asset, solar, load, price, limit, deg)

\* calls whose series lengths may differ, for one valid asset
MismatchedCall(call) ==
    \E ns \in 0..MaxN, nl \in 0..MaxN, np \in 0..MaxN :
    \E solar \in [1..ns -> SolarValues], load \in [1..nl -> LoadValues],
       price \in [1..np -> PriceValues], limit \in LimitValues :
        call = Call(BaseAsset, solar, load, price, limit, 1)

---------------------------------------------------------------------------
(* numpy helpers *)

None == [none |-> TRUE]

\* np.sqrt on a perfect square
Sqrt(n) == CHOOSE r \in 0..n : r * r = n

\* shape of a binary elementwise operation on 1-d arrays of lengths m and n,
\* -1 when numpy raises "operands could not be broadcast together"
BroadcastLen(m, n) ==
    IF m = n THEN m
    ELSE IF m = 1 THEN n
    ELSE IF n = 1 THEN m
    ELSE -1

\* element i (1-based) of array a stretched to a broadcast shape
At(a, i) == IF Len(a) = 1 THEN a[1] ELSE a[i]

Max0(v) == IF v > 0 THEN v ELSE 0

RECURSIVE SumSeq(_)
SumSeq(s) == IF s = <<>> THEN 0 ELSE Head(s) + SumSeq(Tail(s))

MinOf(S) == CHOOSE m \in S : \A k \in S : m <= k

Div(x, y) == [num |-> x, den |-> y]

---------------------------------------------------------------------------
(* LP construction: optimize, lines 104-188 *)

dt_num == timestep_minutes      \* self.timestep_hours = timestep_minutes / 60
dt_den == 60

\* eta_charge = eta_discharge = np.sqrt(asset.efficiency), as the ratio a / b
Eta(asset) == [a |-> Sqrt(asset.efficiency.n), b |-> Sqrt(asset.efficiency.d)]

\* the soc columns are carried in units of 1 / SocScale kWh, which makes
\* every coefficient and right-hand side below an integer
SocScale(asset) == 100 * dt_den * Eta(asset).a * Eta(asset).b

\* the charge coefficient without the wear term
ChargeCostNoWear(call, t) ==
    call.price_gbp_kwh[t] * dt_num

\* c[t] = (price[t] + degradation) * dt, in money units (x 60)
ChargeCost(call, t) ==
    (call.price_gbp_kwh[t] + call.degradation_cost_gbp_kwh) * dt_num

\* the discharge coefficient without the wear term
DischargeCostNoWear(call, t) ==
    -(call.price_gbp_kwh[t] * dt_num)

\* c[N + t] = -(price[t] - degradation) * dt
DischargeCost(call, t) ==
    -((call.price_gbp_kwh[t] - call.degradation_cost_gbp_kwh) * dt_num)

\* the solar / load gap with its sign reversed
GridRhsGapReversed(call, t) ==
    call.grid_export_limit_kw - (call.load_kw[t] - call.solar_kw[t])

\* b_ub of the grid export row: limit - (solar[t] - load[t])
GridRhs(call, t) ==
    call.grid_export_limit_kw - (call.solar_kw[t] - call.load_kw[t])

\* b_ub of both power rows: asset.power_kw
PowerRhsFromCapacity(call, t) ==
    (call.asset.capacity_kwh * dt_den) \div dt_num

PowerRhs(call, t) == call.asset.power_kw

\* the round-trip efficiency applied whole on the charge leg
DynChargeRoundTrip(asset) ==
    (asset.efficiency.n * dt_num * SocScale(asset)) \div (asset.efficiency.d * dt_den)

\* dynamics row, column charge[t]: eta_charge * dt (sign kept in StepOK)
DynCharge(asset) ==
    (Eta(asset).a * dt_num * SocScale(asset)) \div (Eta(asset).b * dt_den)

\* dynamics row, column discharge[t]: 1 / eta_discharge * dt
DynDischarge(asset) ==
    (Eta(asset).b * dt_num * SocScale(asset)) \div (Eta(asset).a * dt_den)

\* the initial row with the percentage taken as a fraction
InitialRhsPercent(asset) ==
    asset.initial_soc_pct * asset.capacity_kwh * SocScale(asset)

\* b_eq of the initial row: initial_soc_pct / 100 * capacity_kwh
InitialRhs(asset) ==
    (asset.initial_soc_pct * asset.capacity_kwh * SocScale(asset)) \div 100

\* price[t] (line 118) and load[t] (line 156) are read for every t < N
BuildIndexError(call) ==
    \/ Len(call.price_gbp_kwh) < Len(call.solar_kw)
    \/ Len(call.load_kw) < Len(call.solar_kw)

BuildLP(call) ==
    LET N == Len(call.solar_kw) IN
    [N |-> N,
     c_charge |-> [t \in 1..N |-> ChargeCost(call, t)],
     c_discharge |-> [t \in 1..N |-> DischargeCost(call, t)],
     b_charge |-> [t \in 1..N |-> PowerRhs(call, t)],
     b_discharge |-> [t \in 1..N |-> PowerRhs(call, t)],
     b_capacity |-> [t \in 1..(N + 1) |-> call.asset.capacity_kwh * SocScale(call.asset)],
     b_grid |-> [t \in 1..N |-> GridRhs(call, t)],
     a_dyn_charge |-> DynCharge(call.asset),
     a_dyn_discharge |-> DynDischarge(call.asset),
     b_init |-> InitialRhs(call.asset),
     lower |-> 0]

---------------------------------------------------------------------------
(* linprog(c, A_ub, b_ub, A_eq, b_eq, bounds, method='highs') *)

GridKw == 0..MaxGridKw

\* the rows that mention timestep t: both power rows, the grid row, the
\* dynamics row and the capacity row and lower bound of soc[t + 1]
StepOK(l, t, s, c, d, s2) ==
    /\ c >= l.lower /\ d >= l.lower
    /\ c <= l.b_charge[t]
    /\ d <= l.b_discharge[t]
    /\ d - c <= l.b_grid[t]
    /\ s2 - s - l.a_dyn_charge * c + l.a_dyn_discharge * d = 0
    /\ s2 >= l.lower /\ s2 <= l.b_capacity[t + 1]

\* all feasible continuations from soc s at timestep t, as sequences of
\* <<charge, discharge, soc after>>
RECURSIVE Plans(_, _, _)
Plans(l, t, s) ==
    IF t > l.N THEN {<<>>}
    ELSE UNION {
        LET s2 == s + l.a_dyn_charge * cd[1] - l.a_dyn_discharge * cd[2] IN
        IF StepOK(l, t, s, cd[1], cd[2], s2)
        THEN {<<<<cd[1], cd[2], s2>>>> \o rest : rest \in Plans(l, t + 1, s2)}
        ELSE {}
        : cd \in GridKw \X GridKw}

\* the decision vector x = [charge_0..N-1, discharge_0..N-1, soc_0..N]
Vector(l, plan) ==
    [charge |-> [t \in 1..l.N |-> plan[t][1]],
     discharge |-> [t \in 1..l.N |-> plan[t][2]],
     soc |-> [t \in 1..(l.N + 1) |-> IF t = 1 THEN l.b_init ELSE plan[t - 1][3]]]

Feasible(l) ==
    IF l.b_init >= l.lower /\ l.b_init <= l.b_capacity[1]
    THEN {Vector(l, plan) : plan \in Plans(l, 1, l.b_init)}
    ELSE {}

Objective(l, x) ==
    SumSeq([t \in 1..l.N |-> l.c_charge[t] * x.charge[t] + l.c_discharge[t] * x.discharge[t]])

Optimal(l) ==
    LET F == Feasible(l)
        best == MinOf({Objective(l, x) : x \in F})
    IN  {x \in F : Objective(l, x) = best}

linprog(l) ==
    IF Feasible(l) = {}
    THEN {[success |-> FALSE, x |-> None, message |-> "The problem is infeasible."]}
    ELSE {[success |-> TRUE, x |-> x, message |-> "Optimization terminated successfully."]
            : x \in Optimal(l)}

---------------------------------------------------------------------------
(* Post-solve extraction: optimize, lines 206-241 *)

\* the whole soc block x[2*N:]
SocKwhToEnd(x, N) == x.soc

\* soc_kwh = x[2*N:2*N+N]
SocKwh(x, N) == SubSeq(x.soc, 1, N)

\* soc_kwh / asset.capacity_kwh * 100, one quotient per entry
SocPct(call, x) ==
    LET N == Len(call.solar_kw)
        soc_kwh == SocKwh(x, N)
    IN  [t \in 1..Len(soc_kwh) |->
            Div(100 * soc_kwh[t], call.asset.capacity_kwh * SocScale(call.asset))]

\* shape of solar - load + discharge - charge
GridExportLen(call) ==
    LET N == Len(call.solar_kw)
        k1 == BroadcastLen(N, Len(call.load_kw))
        k2 == IF k1 < 0 THEN -1 ELSE BroadcastLen(k1, N)
    IN  IF k2 < 0 THEN -1 ELSE BroadcastLen(k2, N)

\* the battery terms with their signs exchanged
GridExportSignsSwapped(call, x) ==
    [i \in 1..GridExportLen(call) |->
        At(call.solar_kw, i) - At(call.load_kw, i) - At(x.discharge, i) + At(x.charge, i)]

\* grid_export = (solar - load + discharge - charge).tolist()
GridExport(call, x) ==
    [i \in 1..GridExportLen(call) |->
        At(call.solar_kw, i) - At(call.load_kw, i) + At(x.discharge, i) - At(x.charge, i)]

\* shape of grid_import * price and of grid_export_pos * price
MoneyLen(call) ==
    IF GridExportLen(call) < 0 THEN -1
    ELSE BroadcastLen(GridExportLen(call), Len(call.price_gbp_kwh))

\* cost = np.sum(grid_import * price * dt), in money units (x 60)
Cost(call, grid_export) ==
    SumSeq([i \in 1..MoneyLen(call) |->
        Max0(-At(grid_export, i)) * At(call.price_gbp_kwh, i) * dt_num])

\* revenue = np.sum(grid_export_pos * price * dt)
Revenue(call, grid_export) ==
    SumSeq([i \in 1..MoneyLen(call) |->
        Max0(At(grid_export, i)) * At(call.price_gbp_kwh, i) * dt_num])

\* shape of np.array(discharge) * np.array(price) in _calculate_sharpe
ReturnsLen(call) == BroadcastLen(Len(call.solar_kw), Len(call.price_gbp_kwh))

\* max_drawdown = 100 - np.min(soc_kwh / capacity * 100)
MaxDrawdown(call, x) ==
    LET N == Len(call.solar_kw)
        soc_kwh == SocKwh(x, N)
        cap == call.asset.capacity_kwh * SocScale(call.asset)
        low == MinOf({soc_kwh[t] : t \in 1..Len(soc_kwh)})
    IN  Div(100 * cap - 100 * low, cap)

\* utilization = np.sum(discharge) * dt / capacity
Utilization(call, x) ==
    Div(SumSeq(x.discharge) * dt_num, dt_den * call.asset.capacity_kwh)

\* the statements after the solve that raise ValueError: the three
\* elementwise products (lines 213, 219, 252) and np.min of an empty array
ExtractValueError(call) ==
    \/ GridExportLen(call) < 0
    \/ MoneyLen(call) < 0
    \/ ReturnsLen(call) < 0
    \/ Len(call.solar_kw) = 0

OptimizationResult(call, r, solve_time) ==
    LET x == r.x
        grid_export == GridExport(call, x)
        revenue == Revenue(call, grid_export)
        cost == Cost(call, grid_export)
    IN  [charge_schedule_kw |-> x.charge,
         discharge_schedule_kw |-> x.discharge,
         soc_trajectory_pct |-> SocPct(call, x),
         grid_export_kw |-> grid_export,
         revenue_gbp |-> revenue,
         cost_gbp |-> cost,
         net_profit_gbp |-> revenue - cost,
         max_drawdown_pct |-> MaxDrawdown(call, x),
         utilization_factor |-> Utilization(call, x),
         solver_status |-> r.message,
         solve_time_ms |-> solve_time]

\* solve_time = (time.time() - start_time) * 1000: what the wall clock gives
SolveTimes == {1, 2}

Exception(type, message) == [type |-> type, message |-> message]

---------------------------------------------------------------------------
(* IEEE-754 binary64 arithmetic, as numpy performs it on float64 arrays.   *)
(* A positive double is m * 2^e with a 53-bit mantissa m; zero has m = 0.  *)
(* Mantissas and exact intermediate results are naturals of Limbs limbs of *)
(* 16 bits, least significant first.  Every operation computes the exact   *)
(* result and rounds it once, to nearest, ties to even.                    *)

Limbs == 5
LimbBase == 65536

BigOf(n) == <<n % LimbBase, n \div LimbBase, 0, 0, 0>>

BigIsZero(a) == \A i \in 1..Limbs : a[i] = 0

RECURSIVE AddCarry(_, _, _)
AddCarry(a, b, c) ==
    IF a = <<>> THEN <<>>
    ELSE LET s == Head(a) + Head(b) + c
         IN  <<s % LimbBase>> \o AddCarry(Tail(a), Tail(b), s \div LimbBase)

BigAdd(a, b) == AddCarry(a, b, 0)

RECURSIVE MulCarry(_, _, _)
MulCarry(a, k, c) ==
    IF a = <<>> THEN <<>>
    ELSE LET s == Head(a) * k + c
         IN  <<s % LimbBase>> \o MulCarry(Tail(a), k, s \div LimbBase)

\* a times a small natural k
BigMul(a, k) == MulCarry(a, k, 0)

\* a times 2^j
RECURSIVE BigShl(_, _)
BigShl(a, j) ==
    IF j = 0 THEN a
    ELSE IF j >= 16 THEN BigShl(<<0>> \o SubSeq(a, 1, Limbs - 1), j - 16)
    ELSE IF j >= 8 THEN BigShl(BigMul(a, 256), j - 8)
    ELSE BigMul(a, 2 ^ j)

\* long division of limbs i..1 of a by a small natural d, r carried in
RECURSIVE DivFrom(_, _, _, _)
DivFrom(a, d, i, r) ==
    IF i = 0 THEN [q |-> <<>>, r |-> r]
    ELSE LET cur == r * LimbBase + a[i]
             rest == DivFrom(a, d, i - 1, cur % d)
         IN  [q |-> rest.q \o <<cur \div d>>, r |-> rest.r]

\* quotient and remainder of a by a small natural d
BigDivMod(a, d) == DivFrom(a, d, Limbs, 0)

\* number of bits of a small natural
RECURSIVE SmallBitLen(_)
SmallBitLen(n) == IF n = 0 THEN 0 ELSE 1 + SmallBitLen(n \div 2)

BitLen(a) ==
    IF BigIsZero(a) THEN 0
    ELSE LET top == CHOOSE i \in 1..Limbs :
                        a[i] # 0 /\ \A j \in (i + 1)..Limbs : a[j] = 0
         IN  16 * (top - 1) + SmallBitLen(a[top])

\* 2^52 <= a < 2^53
IsMantissa(a) == a[5] = 0 /\ a[4] \in 16..31

FloatZero == [m |-> BigOf(0), e |-> 0]

\* the double nearest to (M / D) * 2^e, for a natural M and a small D > 0
RoundRatio(M, D, e) ==
    IF BigIsZero(M) THEN FloatZero
    ELSE LET bl == BitLen(M) - SmallBitLen(D)
             den(sh) == IF sh <= 0 THEN D ELSE D * (2 ^ sh)
             Try(sh) == IF sh <= 0 THEN BigDivMod(BigShl(M, -sh), D)
                        ELSE BigDivMod(M, den(sh))
             sh == CHOOSE k \in {bl - 53, bl - 52} : IsMantissa(Try(k).q)
             t == Try(sh)
             up == \/ 2 * t.r > den(sh)
                   \/ 2 * t.r = den(sh) /\ t.q[1] % 2 = 1
             m == IF up THEN BigAdd(t.q, BigOf(1)) ELSE t.q
         IN  IF IsMantissa(m) THEN [m |-> m, e |-> e + sh]
             ELSE [m |-> <<0, 0, 0, 16, 0>>, e |-> e + sh + 1]

\* float(p / q) for a decimal literal p/q
FloatOfRatio(p, q) == RoundRatio(BigOf(p), q, 0)

\* a + b
FloatAdd(a, b) ==
    IF BigIsZero(a.m) THEN b
    ELSE IF BigIsZero(b.m) THEN a
    ELSE LET e == IF a.e < b.e THEN a.e ELSE b.e
         IN  RoundRatio(BigAdd(BigShl(a.m, a.e - e), BigShl(b.m, b.e - e)), 1, e)

\* a * k for a double k holding a small natural
FloatTimes(a, k) == RoundRatio(BigMul(a.m, k), 1, a.e)

\* a / n for a double n holding a small positive natural
FloatOver(a, n) == RoundRatio(a.m, n, a.e)

---------------------------------------------------------------------------
(* BatteryOptimizer._calculate_sharpe, lines 243-255, on float64 arrays *)

\* returns = np.array(discharge) * np.array(price); discharge in whole kW
Returns(discharge, price) ==
    [i \in 1..Len(discharge) |-> FloatTimes(price[i], discharge[i])]

\* np.sum of fewer than 8 doubles: added one by one from the left
RECURSIVE FloatSum(_, _)
FloatSum(acc, xs) ==
    IF xs = <<>> THEN acc ELSE FloatSum(FloatAdd(acc, Head(xs)), Tail(xs))

\* np.mean(returns) = sum / n
Mean(returns) == FloatOver(FloatSum(FloatZero, returns), Len(returns))

\* np.std(returns) == 0: every deviation returns[i] - mean is zero (a
\* non-zero deviation squares to a non-zero double here)
StdIsZero(returns) == \A i \in DOMAIN returns : returns[i] = Mean(returns)

\* the value returned: 0.0, or mean / std with a positive std
calculate_sharpe(discharge, price) ==
    LET returns == Returns(discharge, price)
    IN  IF Len(returns) = 0 \/ StdIsZero(returns)
        THEN FloatZero
        ELSE [mean |-> Mean(returns), std |-> "positive"]

---------------------------------------------------------------------------
(* calculate_baseline_cost (src/modules/optimization.py, lines 258-288).   *)
(* The export tariff is half the price, so the three amounts are kept in   *)
(* HALF money units: a value v here is v / 2 in the money unit of optimize.*)
(* Halving and the default timestep of 0.25 h are powers of two, which     *)
(* float64 applies without rounding.                                       *)

\* shape of np.array(solar_kw) - np.array(load_kw), then times the price
BaselineLen(solar, load, price) ==
    LET n == BroadcastLen(Len(solar), Len(load))
    IN  IF n < 0 THEN -1 ELSE BroadcastLen(n, Len(price))

\* grid_no_battery = np.array(solar_kw) - np.array(load_kw)
GridNoBattery(solar, load, i) == At(solar, i) - At(load, i)

\* the import priced at the reduced export tariff as well
BaselineCostHalfTariff(solar, load, price) ==
    SumSeq([i \in 1..BaselineLen(solar, load, price) |->
        Max0(-GridNoBattery(solar, load, i)) * At(price, i) * dt_num])

\* cost = np.sum(import_no_battery * price * timestep_hours)
BaselineCost(solar, load, price) ==
    SumSeq([i \in 1..BaselineLen(solar, load, price) |->
        2 * Max0(-GridNoBattery(solar, load, i)) * At(price, i) * dt_num])

\* the export paid at the full price
BaselineRevenueFullTariff(solar, load, price) ==
    SumSeq([i \in 1..BaselineLen(solar, load, price) |->
        2 * Max0(GridNoBattery(solar, load, i)) * At(price, i) * dt_num])

\* revenue = np.sum(export_no_battery * price * 0.5 * timestep_hours)
BaselineRevenue(solar, load, price) ==
    SumSeq([i \in 1..BaselineLen(solar, load, price) |->
        Max0(GridNoBattery(solar, load, i)) * At(price, i) * dt_num])

\* the dictionary of lines 284-288
calculate_baseline_cost(solar, load, price) ==
    LET cost == BaselineCost(solar, load, price)
        revenue == BaselineRevenue(solar, load, price)
    IN  [cost_gbp |-> cost, revenue_gbp |-> revenue, net_gbp |-> revenue - cost]

---------------------------------------------------------------------------
(* BatteryDegradationModel (src/modules/degradation.py).  Capacity is in   *)
(* tenths of a kWh (13.5 kWh = 135); every quotient is an exact fraction   *)
(* in lowest terms.                                                        *)

RECURSIVE GCD(_, _)
GCD(a, b) == IF b = 0 THEN a ELSE GCD(b, a % b)

\* the fraction x / y in lowest terms (y > 0)
Reduce(x, y) ==
    LET g == GCD(IF x < 0 THEN -x ELSE x, y)
    IN  Div(x \div g, y \div g)

warranty_cycles == 3650
replacement_cost_gbp == 7000
capacity_retention_pct == 70

\* __init__, lines 29-36:
\* cost_per_cycle = replacement_cost_gbp * (1 - retention) / warranty_cycles
BatteryDegradationModel(battery_capacity_dkwh) ==
    [capacity |-> battery_capacity_dkwh,
     cost_per_cycle |-> Reduce(replacement_cost_gbp * (100 - capacity_retention_pct),
                               100 * warranty_cycles)]

\* depth_of_discharge = discharge_kw * timestep_hours / self.capacity
DepthOfDischarge(self, kw) == Reduce(kw * dt_num * 10, dt_den * self.capacity)

\* a penalty proportional to the depth itself
DepthPenaltyLinear(depth) == depth

\* depth_of_discharge ** 2
DepthPenalty(depth) == Div(depth.num * depth.num, depth.den * depth.den)

\* the sum of two fractions
RatAdd(p, q) == Reduce(p.num * q.den + q.num * p.den, p.den * q.den)

\* cycle_equivalent = np.sum(depth_of_discharge ** 2), over the first n entries
RECURSIVE CycleEquivalent(_, _, _)
CycleEquivalent(self, discharge_kw, n) ==
    IF n = 0 THEN Div(0, 1)
    ELSE RatAdd(CycleEquivalent(self, discharge_kw, n - 1),
                DepthPenalty(DepthOfDischarge(self, discharge_kw[n])))

\* degradation_cost = cycle_equivalent * self.cost_per_cycle, in GBP
calculate_degradation_cost(self, discharge_kw) ==
    LET cycle_equivalent == CycleEquivalent(self, discharge_kw, Len(discharge_kw))
    IN  Reduce(cycle_equivalent.num * self.cost_per_cycle.num,
               cycle_equivalent.den * self.cost_per_cycle.den)

---------------------------------------------------------------------------
(* GridConstraintChecker (src/modules/grid_physics.py).  Power is in       *)
(* quarter kW: every export and limit used is a multiple of 0.25 kW, which *)
(* float64 holds and subtracts exactly.                                    *)

line_resistance_mohm == 75      \* line_resistance_ohm = 0.075
nominal_voltage_v == 230

\* V_rise_pct = ((export * 1000 * R_line) / V_nom / V_nom) * 100
VoltageRisePct(export) ==
    Div(export * line_resistance_mohm * 100, 4 * nominal_voltage_v * nominal_voltage_v)

\* V_rise = (export * 1000 * R_line) / V_nom
VoltageRiseV(export) == Div(export * line_resistance_mohm, 4 * nominal_voltage_v)

\* export >= limit instead of export > limit
ExceedsOrMeets(export, limit) == export >= limit

\* the test of line 66
Exceeds(export, limit) == export > limit

\* 'critical' from an excess of 0.5 kW on
SeverityFromHalf(excess) == IF excess >= 2 THEN "critical" ELSE "warning"

\* severity = 'critical' if excess > 0.5 else 'warning'
Severity(excess) == IF excess > 2 THEN "critical" ELSE "warning"

\* f"{hour:02d}:{minute:02d}", as its five characters
TimeLabel(t, minutes) ==
    LET hour == (t * minutes) \div 60
        minute == (t * minutes) % 60
        Two(n) == IF n < 100 THEN <<n \div 10, n % 10>> ELSE <<n \div 100, (n \div 10) % 10, n % 10>>
    IN  Two(hour) \o <<":">> \o Two(minute)

GridViolation(t, export, limit) ==
    [timestep |-> t,
     time_label |-> TimeLabel(t, timestep_minutes),
     net_export_kw |-> export,
     limit_kw |-> limit,
     excess_kw |-> export - limit,
     voltage_rise_pct |-> VoltageRisePct(export),
     severity |-> Severity(export - limit)]

\* the loop of lines 65-86 over the first n entries; t counts from 0
RECURSIVE Violations(_, _, _)
Violations(exports, limit, n) ==
    IF n = 0 THEN <<>>
    ELSE LET before == Violations(exports, limit, n - 1)
         IN  IF Exceeds(exports[n], limit)
             THEN Append(before, GridViolation(n - 1, exports[n], limit))
             ELSE before

MaxOf(S) == CHOOSE m \in S : \A k \in S : m >= k

\* compliance on the violation count alone
G99CompliantByCount(violations, max_export_pos) == Len(violations) = 0

\* len(violations) == 0 and np.max(V_rise_pct_all) < 10.0
G99Compliant(violations, max_export_pos) ==
    /\ Len(violations) = 0
    /\ VoltageRisePct(max_export_pos).num < 10 * VoltageRisePct(max_export_pos).den

\* one entry of grid_stress = np.clip(export_pos / self.grid_limit, 0, 1):
\* a zero limit gives 0/0 = nan, which np.clip keeps, or x/0 = inf, which
\* it clips to 1; a negative limit gives a quotient <= 0, clipped to 0
Stress(export_pos, limit) ==
    IF limit = 0
    THEN (IF export_pos = 0 THEN Div(0, 0) ELSE Div(1, 1))
    ELSE IF limit < 0 THEN Div(0, 1)
    ELSE Div(IF export_pos > limit THEN limit ELSE export_pos, limit)

\* np.max(grid_stress): nan as soon as one entry is nan; the entries of one
\* call that are numbers share their denominator
PeakGridStress(export_pos, limit) ==
    LET stress == [t \in DOMAIN export_pos |-> Stress(export_pos[t], limit)]
    IN  IF \E t \in DOMAIN stress : stress[t].den = 0
        THEN Div(0, 0)
        ELSE CHOOSE q \in {stress[t] : t \in DOMAIN stress} :
                \A t \in DOMAIN stress : q.num >= stress[t].num

\* lines 88-104 for a non-empty series; the voltage rise grows with the
\* export, so its maximum is that of the largest export
Report(exports, limit) ==
    LET violations == Violations(exports, limit, Len(exports))
        export_pos == [t \in DOMAIN exports |-> Max0(exports[t])]
        max_export_pos == MaxOf({export_pos[t] : t \in DOMAIN exports})
    IN  [violations |-> violations,
         violation_count |-> Len(violations),
         max_voltage_rise_V |-> VoltageRiseV(max_export_pos),
         max_voltage_rise_pct |-> VoltageRisePct(max_export_pos),
         peak_grid_stress |-> PeakGridStress(export_pos, limit),
         times_at_limit |->
            Cardinality({t \in DOMAIN exports : export_pos[t] * 100 > limit * 95}),
         g99_compliant |-> G99Compliant(violations, max_export_pos)]

---------------------------------------------------------------------------
(* The state machine: one optimize call at a time, in four positions *)

Init ==
    /\ MatchedCall(args) \/ MismatchedCall(args)
    /\ pc = "called"
    /\ lp = None
    /\ sol = None
    /\ result = None
    /\ error = None
    /\ prev = None
    /\ rng = 0
    /\ heap = None

\* lines 104-188: the objective, the constraint rows and the bounds
Build ==
    /\ pc = "called"
    /\ IF BuildIndexError(args)
       THEN /\ pc' = "raised"
            /\ error' = Exception("IndexError", "index out of bounds")
            /\ lp' = None
       ELSE /\ pc' = "built"
            /\ lp' = BuildLP(args)
            /\ error' = None
    /\ UNCHANGED <<args, sol, result, prev, rng, heap>>

\* the solver seeded from the global generator: the same problem gets the
\* same answer only while the generator has not moved
SolveSeeded ==
    /\ pc = "built"
    /\ sol' \in (IF prev # None /\ prev.lp = lp /\ prev.rng = rng
                 THEN {prev.sol} ELSE linprog(lp))
    /\ pc' = "solved"
    /\ UNCHANGED <<args, lp, result, error, prev, rng, heap>>

\* lines 191-199: the solver call; a problem solved before gets the answer
\* it got then
Solve ==
    /\ pc = "built"
    /\ sol' \in (IF prev # None /\ prev.lp = lp THEN {prev.sol} ELSE linprog(lp))
    /\ pc' = "solved"
    /\ UNCHANGED <<args, lp, result, error, prev, rng, heap>>

\* the success check left out: x is None and x[:N] raises TypeError
ExtractUnchecked ==
    /\ pc = "solved"
    /\ IF ~sol.success \/ ExtractValueError(args)
       THEN /\ pc' = "raised"
            /\ error' = Exception(IF sol.success THEN "ValueError" ELSE "TypeError", "numpy")
            /\ result' = None
       ELSE /\ pc' = "returned"
            /\ \E solve_time \in SolveTimes :
                result' = OptimizationResult(args, sol, solve_time)
            /\ error' = None
    /\ UNCHANGED <<args, lp, sol, prev, rng, heap>>

\* lines 201-241: raise on failure, else extract and return
Extract ==
    /\ pc = "solved"
    /\ IF ~sol.success
       THEN /\ pc' = "raised"
            /\ error' = Exception("RuntimeError", <<"Optimization failed: ", sol.message>>)
            /\ result' = None
       ELSE IF ExtractValueError(args)
       THEN /\ pc' = "raised"
            /\ error' = Exception("ValueError", "numpy")
            /\ result' = None
       ELSE /\ pc' = "returned"
            /\ \E solve_time \in SolveTimes :
                result' = OptimizationResult(args, sol, solve_time)
            /\ error' = None
    /\ UNCHANGED <<args, lp, sol, prev, rng, heap>>

\* what is kept of a finished call: its inputs, its LP, the solver's answer,
\* its outcome, and the state of the global generator when it ran
Finished ==
    [args |-> args, lp |-> lp, sol |-> sol, result |-> result, error |-> error,
     rng |-> rng]

\* the caller runs optimize again on the same scenario with a larger export
\* limit (src/app.py re-runs on the cached scenario when grid_limit moves)
CallAgain ==
    /\ pc = "returned"
    /\ prev = None
    /\ \E limit \in {l \in LimitValues : l > args.grid_export_limit_kw} :
        args' = [args EXCEPT !.grid_export_limit_kw = limit]
    /\ prev' = Finished
    /\ pc' = "called"
    /\ lp' = None
    /\ sol' = None
    /\ result' = None
    /\ error' = None
    /\ UNCHANGED <<rng, heap>>

Next == Build \/ Solve \/ Extract

Spec == Init /\ [][Next]_vars

\* a valid scenario optimised twice, first under a limit that can be raised
InitRerun ==
    /\ Init
    /\ AssetValid(args.asset)
    /\ ~LengthsDiffer(args)
    /\ \E limit \in LimitValues : limit > args.grid_export_limit_kw

NextRerun == Next \/ CallAgain

SpecRerun == InitRerun /\ [][NextRerun]_vars

RngStates == {0, 1}

\* between two calls the market data module reseeds or draws from the global
\* generator (src/modules/market_data.py)
RandomActivity ==
    /\ pc = "returned"
    /\ IF prev = None THEN TRUE ELSE args # prev.args
    /\ rng' \in RngStates \ {rng}
    /\ UNCHANGED <<args, pc, lp, sol, result, error, prev, heap>>

\* the caller runs optimize again with the inputs of its first call, either
\* at once or after a call with another export limit
CallSame ==
    /\ pc = "returned"
    /\ \/ prev = None /\ args' = args /\ prev' = Finished
       \/ prev # None /\ args # prev.args /\ args' = prev.args /\ prev' = prev
    /\ pc' = "called"
    /\ lp' = None
    /\ sol' = None
    /\ result' = None
    /\ error' = None
    /\ UNCHANGED <<rng, heap>>

\* a valid scenario on one battery, optimised repeatedly
InitRepeat ==
    /\ InitRerun
    /\ args.asset.power_kw = 2
    /\ args.asset.efficiency = Eff(1, 1)
    /\ args.degradation_cost_gbp_kwh = 1

NextRepeat == Next \/ CallAgain \/ RandomActivity \/ CallSame

SpecRepeat == InitRepeat /\ [][NextRepeat]_vars

\* one call on a flat or nearly flat tariff: a negative price, prices less than
\* twice the degradation cost apart, and prices exactly that far apart
SpreadPriceValues == {-2, 3, 4, 5}

SpreadAssets ==
    {BatteryAsset(1, 2, eff, soc) :
        eff \in {Eff(1, 1), Eff(1, 4), Eff(4, 1)}, soc \in {0, 100}}

SpreadCall(call) ==
    \E n \in 0..MaxN :
    \E asset \in SpreadAssets, solar \in [1..n -> SolarValues],
       price \in [1..n -> SpreadPriceValues], limit \in LimitValues :
        call = Call(asset, solar, [t \in 1..n |-> 0], price, limit, 1)

InitSpread ==
    /\ SpreadCall(args)
    /\ pc = "called"
    /\ lp = None
    /\ sol = None
    /\ result = None
    /\ error = None
    /\ prev = None
    /\ rng = 0
    /\ heap = None

SpecSpread == InitSpread /\ [][Next]_vars

\* _calculate_sharpe on its own: discharge in whole kW, prices written in
\* pence per kWh and parsed as float(pence / 100)
PenceValues == {5, 10, 15}

SharpeCall(call) ==
    \E n \in 0..MaxReturns :
    \E discharge \in [1..n -> 0..2], pence \in [1..n -> PenceValues] :
        call = [discharge |-> discharge,
                price |-> [i \in 1..n |-> FloatOfRatio(pence[i], 100)]]

InitSharpe ==
    /\ SharpeCall(args)
    /\ pc = "called"
    /\ lp = None
    /\ sol = None
    /\ result = None
    /\ error = None
    /\ prev = None
    /\ rng = 0
    /\ heap = None

CalculateSharpe ==
    /\ pc = "called"
    /\ result' = calculate_sharpe(args.discharge, args.price)
    /\ pc' = "returned"
    /\ UNCHANGED <<args, lp, sol, error, prev, rng, heap>>

NextSharpe == CalculateSharpe

SpecSharpe == InitSharpe /\ [][NextSharpe]_vars

\* the first state-of-charge point in float64: the right-hand side of the
\* initial condition (line 182), which the solver's answer meets as an
\* equality, and its conversion to a percentage (line 211)
InitialSocKwh(asset) ==
    FloatTimes(FloatOfRatio(asset.initial_soc_pct, 100), asset.capacity_kwh)

FirstSocPct(asset, soc_kwh) ==
    FloatTimes(FloatOver(soc_kwh, asset.capacity_kwh), 100)

FirstPointCall(call) ==
    \E cap \in {1, 10, 13}, soc \in 0..100 :
        call = [asset |-> BatteryAsset(cap, 2, Eff(1, 1), soc)]

InitFirstPoint ==
    /\ FirstPointCall(args)
    /\ pc = "called"
    /\ lp = None
    /\ sol = None
    /\ result = None
    /\ error = None
    /\ prev = None
    /\ rng = 0
    /\ heap = None

ReportFirstPoint ==
    /\ pc = "called"
    /\ LET soc_kwh == InitialSocKwh(args.asset)
       IN  result' = [soc_kwh |-> <<soc_kwh>>,
                      soc_trajectory_pct |-> <<FirstSocPct(args.asset, soc_kwh)>>]
    /\ pc' = "returned"
    /\ UNCHANGED <<args, lp, sol, error, prev, rng, heap>>

NextFirstPoint == ReportFirstPoint

SpecFirstPoint == InitFirstPoint /\ [][NextFirstPoint]_vars

\* check_violations on its own, in quarter kW: a limit of 0 kW (a site that
\* may not export), 4 kW (the default) or 100 kW; exports of -1, 0, 4, 4.5,
\* 4.75, 70.5 and 70.75 kW
GridLimits == {0, 16, 400}
ExportLevels == {-4, 0, 16, 18, 19, 282, 283}

CheckerCall(call) ==
    \E n \in 0..MaxN :
    \E exports \in [1..n -> ExportLevels], limit \in GridLimits :
        call = [grid_export_kw |-> exports, grid_export_limit_kw |-> limit]

InitChecker ==
    /\ CheckerCall(args)
    /\ pc = "called"
    /\ lp = None
    /\ sol = None
    /\ result = None
    /\ error = None
    /\ prev = None
    /\ rng = 0
    /\ heap = None

\* check_violations, lines 51-104; np.max of an empty array raises
CheckViolations ==
    /\ pc = "called"
    /\ IF Len(args.grid_export_kw) = 0
       THEN /\ pc' = "raised"
            /\ error' = Exception("ValueError", "numpy")
            /\ result' = None
       ELSE /\ pc' = "returned"
            /\ result' = Report(args.grid_export_kw, args.grid_export_limit_kw)
            /\ error' = None
    /\ UNCHANGED <<args, lp, sol, prev, rng, heap>>

NextChecker == CheckViolations

SpecChecker == InitChecker /\ [][NextChecker]_vars

\* the four-interval scenario: a full 4 kWh battery, 1 kW of load, no solar,
\* two cheap intervals then two dear ones, the default degradation cost
Scenario ==
    Call(BatteryAsset(4, 2, Eff(1, 1), 100),
         <<0, 0, 0, 0>>, <<1, 1, 1, 1>>, <<1, 1, 4, 4>>, 2, 1)

\* the scenario and its neighbours in power, initial charge and export limit
ScenarioCall(call) ==
    \E pow \in {1, 2}, soc \in {0, 50, 100}, limit \in {1, 2, 3} :
        call = [Scenario EXCEPT !.asset.power_kw = pow,
                                !.asset.initial_soc_pct = soc,
                                !.grid_export_limit_kw = limit]

InitScenario ==
    /\ ScenarioCall(args)
    /\ pc = "called"
    /\ lp = None
    /\ sol = None
    /\ result = None
    /\ error = None
    /\ prev = None
    /\ rng = 0
    /\ heap = None

SpecScenario == InitScenario /\ [][Next]_vars

\* calculate_baseline_cost on its own, on three series of one length
BaselineSolarValues == {0, 1, 3}
BaselineLoadValues == {0, 1, 2}
BaselinePriceValues == {-2, 3, 6}

BaselineCall(call) ==
    \E n \in 0..MaxN :
    \E solar \in [1..n -> BaselineSolarValues], load \in [1..n -> BaselineLoadValues],
       price \in [1..n -> BaselinePriceValues] :
        call = [solar_kw |-> solar, load_kw |-> load, price_gbp_kwh |-> price]

InitBaseline ==
    /\ BaselineCall(args)
    /\ pc = "called"
    /\ lp = None
    /\ sol = None
    /\ result = None
    /\ error = None
    /\ prev = None
    /\ rng = 0
    /\ heap = None

\* lines 276-288
CalculateBaseline ==
    /\ pc = "called"
    /\ pc' = "returned"
    /\ result' = calculate_baseline_cost(args.solar_kw, args.load_kw, args.price_gbp_kwh)
    /\ UNCHANGED <<args, lp, sol, error, prev, rng, heap>>

NextBaseline == CalculateBaseline

SpecBaseline == InitBaseline /\ [][NextBaseline]_vars


\* calculate_degradation_cost on its own: a model of 10 or 13.5 kWh (the
\* default), a discharge schedule in whole kW; the caller may then cost the
\* same energy discharged in a single timestep, or twice a single discharge
CapacityValues == {100, 135}
DischargeLevels == {0, 1, 2, 3}

DegradationCall(call) ==
    \E n \in 0..MaxN :
    \E discharge \in [1..n -> DischargeLevels], capacity \in CapacityValues :
        call = [self |-> BatteryDegradationModel(capacity), discharge_kw |-> discharge]

InitDegradation ==
    /\ DegradationCall(args)
    /\ pc = "called"
    /\ lp = None
    /\ sol = None
    /\ result = None
    /\ error = None
    /\ prev = None
    /\ rng = 0
    /\ heap = None

\* lines 51-59
CalculateDegradationCost ==
    /\ pc = "called"
    /\ pc' = "returned"
    /\ result' = calculate_degradation_cost(args.self, args.discharge_kw)
    /\ UNCHANGED <<args, lp, sol, error, prev, rng, heap>>

\* the same model is asked for the cost of the whole energy in one timestep
CallSingle ==
    /\ pc = "returned"
    /\ prev = None
    /\ args' = [args EXCEPT !.discharge_kw = <<SumSeq(args.discharge_kw)>>]
    /\ prev' = Finished
    /\ pc' = "called"
    /\ result' = None
    /\ UNCHANGED <<lp, sol, error, rng, heap>>

\* the same model is asked for the cost of twice a one-timestep discharge
CallDoubled ==
    /\ pc = "returned"
    /\ prev = None
    /\ Len(args.discharge_kw) = 1
    /\ args' = [args EXCEPT !.discharge_kw = <<2 * args.discharge_kw[1]>>]
    /\ prev' = Finished
    /\ pc' = "called"
    /\ result' = None
    /\ UNCHANGED <<lp, sol, error, rng, heap>>

NextDegradation == CalculateDegradationCost \/ CallSingle \/ CallDoubled

SpecDegradation == InitDegradation /\ [][NextDegradation]_vars

\* Two callers run optimize at once on one BatteryOptimizer and one scenario
\* (the asset and the three series are the SAME objects for both), each
\* with its own export limit.  heap holds the objects by address; args[p]
\* holds the addresses and the two numbers passed to call p; lp[p], sol[p],
\* result[p] and error[p] are the locals and the outcome of call p.
Procs == {1, 2}

InputAddrs == [self |-> 1, asset |-> 2, solar_kw |-> 3, load_kw |-> 4, price_gbp_kwh |-> 5]

\* __init__, line 76: self.timestep_hours = timestep_minutes / 60.0
BatteryOptimizer == [timestep_hours |-> Div(dt_num, dt_den)]

\* the arguments of call p, read through their addresses in the store h
CallOn(h, p) ==
    Call(h[args[p].asset], h[args[p].solar_kw], h[args[p].load_kw],
         h[args[p].price_gbp_kwh], args[p].grid_export_limit_kw,
         args[p].degradation_cost_gbp_kwh)

InitConcurrent ==
    /\ \E n \in 0..MaxConcurrentN :
       \E solar \in [1..n -> SolarValues], load \in [1..n -> LoadValues],
          price \in [1..n -> PriceValues] :
            heap = <<BatteryOptimizer, BaseAsset, solar, load, price>>
    /\ \E low \in LimitValues, high \in LimitValues :
        /\ low < high
        /\ args = [p \in Procs |->
                    [self |-> InputAddrs.self, asset |-> InputAddrs.asset,
                     solar_kw |-> InputAddrs.solar_kw, load_kw |-> InputAddrs.load_kw,
                     price_gbp_kwh |-> InputAddrs.price_gbp_kwh,
                     grid_export_limit_kw |-> IF p = 1 THEN low ELSE high,
                     degradation_cost_gbp_kwh |-> 1]]
    /\ pc = [p \in Procs |-> "called"]
    /\ lp = [p \in Procs |-> None]
    /\ sol = [p \in Procs |-> None]
    /\ result = [p \in Procs |-> None]
    /\ error = [p \in Procs |-> None]
    /\ prev = None
    /\ rng = 0

\* lines 104-188 in call p: np.array copies the three series (lines 105-107)
\* and the LP is built from the copies and the asset
BuildIn(p) ==
    /\ pc[p] = "called"
    /\ IF BuildIndexError(CallOn(heap, p))
       THEN /\ pc' = [pc EXCEPT ![p] = "raised"]
            /\ error' = [error EXCEPT ![p] = Exception("IndexError", "index out of bounds")]
            /\ lp' = lp
       ELSE /\ pc' = [pc EXCEPT ![p] = "built"]
            /\ lp' = [lp EXCEPT ![p] =
                        [solar |-> heap[args[p].solar_kw], load |-> heap[args[p].load_kw],
                         price |-> heap[args[p].price_gbp_kwh],
                         problem |-> BuildLP(CallOn(heap, p))]]
            /\ error' = error
    /\ UNCHANGED <<args, sol, result, prev, rng, heap>>

\* lines 191-199 in call p
SolveIn(p) ==
    /\ pc[p] = "built"
    /\ \E r \in linprog(lp[p].problem) : sol' = [sol EXCEPT ![p] = r]
    /\ pc' = [pc EXCEPT ![p] = "solved"]
    /\ UNCHANGED <<args, lp, result, error, prev, rng, heap>>

\* the four result lists written into one buffer kept between invocations
ResultAddrsShared(h) == [i \in 1..4 |-> Cardinality(DOMAIN InputAddrs) + i]

\* .tolist() (lines 211, 213, 229, 230) builds four new lists
ResultAddrs(h) == [i \in 1..4 |-> Len(h) + i]

\* the store h with the lists vals written at the addresses addrs
Store(h, addrs, vals) ==
    LET top == MaxOf({Len(h)} \cup {addrs[i] : i \in DOMAIN addrs})
    IN  [a \in 1..top |->
            IF \E i \in DOMAIN addrs : addrs[i] = a
            THEN vals[CHOOSE i \in DOMAIN addrs : addrs[i] = a]
            ELSE h[a]]

\* the arguments as lines 206-241 see them: the copies of the series made
\* at lines 105-107, the asset read again from the caller's object
LocalCall(p) ==
    Call(heap[args[p].asset], lp[p].solar, lp[p].load, lp[p].price,
         args[p].grid_export_limit_kw, args[p].degradation_cost_gbp_kwh)

\* lines 201-241 in call p
ExtractIn(p) ==
    /\ pc[p] = "solved"
    /\ IF ~sol[p].success
       THEN /\ pc' = [pc EXCEPT ![p] = "raised"]
            /\ error' = [error EXCEPT ![p] =
                            Exception("RuntimeError", <<"Optimization failed: ", sol[p].message>>)]
            /\ UNCHANGED <<result, heap>>
       ELSE IF ExtractValueError(LocalCall(p))
       THEN /\ pc' = [pc EXCEPT ![p] = "raised"]
            /\ error' = [error EXCEPT ![p] = Exception("ValueError", "numpy")]
            /\ UNCHANGED <<result, heap>>
       ELSE /\ pc' = [pc EXCEPT ![p] = "returned"]
            /\ \E solve_time \in SolveTimes :
                LET r == OptimizationResult(LocalCall(p), sol[p], solve_time)
                    addrs == ResultAddrs(heap)
                IN  /\ heap' = Store(heap, addrs,
                                     <<r.charge_schedule_kw, r.discharge_schedule_kw,
                                       r.soc_trajectory_pct, r.grid_export_kw>>)
                    /\ result' = [result EXCEPT ![p] =
                                    [r EXCEPT !.charge_schedule_kw = addrs[1],
                                              !.discharge_schedule_kw = addrs[2],
                                              !.soc_trajectory_pct = addrs[3],
                                              !.grid_export_kw = addrs[4]]]
            /\ error' = error
    /\ UNCHANGED <<args, lp, sol, prev, rng>>

NextConcurrent == \E p \in Procs : BuildIn(p) \/ SolveIn(p) \/ ExtractIn(p)

SpecConcurrent == InitConcurrent /\ [][NextConcurrent]_vars

\* POST /optimize (src/backend/routes/vpp.py, optimize_vpp).  args is the
\* request; lp holds the handler's forecasts once the defaults are filled
\* in; sol is the outcome of the optimizer call, None while the optimizer
\* has not been invoked; error is the exception travelling through the try
\* block; result is the HTTP response.  The optimizer runs here on a battery
\* of efficiency 0.90, whose square root the integer model of optimize does
\* not hold, so its call is kept to its three outcomes: a result, the
\* RuntimeError of an infeasible problem, the ValueError of an empty horizon.
\* an optional argument that the request supplies
Given(v) == [given |-> v]

HTTPException(status_code, detail) ==
    [type |-> "HTTPException", status_code |-> status_code, detail |-> detail]

\* str(e), line 124
Str(e) == [str |-> e]

RouteRequest(request) ==
    \E n \in 0..MaxN, nl \in 0..MaxN, np \in 0..MaxN :
    \E solar \in [1..n -> SolarValues],
       load \in {None} \cup {Given(v) : v \in [1..nl -> LoadValues]},
       price \in {None} \cup {Given(v) : v \in [1..np -> PriceValues]} :
        request = [solar_forecast_kw |-> solar, load_forecast_kw |-> load,
                   price_forecast_gbp_kwh |-> price]

InitRoute ==
    /\ RouteRequest(args)
    /\ pc = "called"
    /\ lp = None
    /\ sol = None
    /\ result = None
    /\ error = None
    /\ prev = None
    /\ rng = 0
    /\ heap = None

\* lines 50-76: MarketDataGenerator() draws from and reseeds the global
\* generator; a missing forecast is generated with N intervals; forecasts
\* of another length raise HTTPException(400) inside the try block
RouteValidate ==
    /\ pc = "called"
    /\ rng' \in RngStates
    /\ LET N == Len(args.solar_forecast_kw) IN
       \E load \in IF args.load_forecast_kw = None
                    THEN [1..N -> LoadValues] ELSE {args.load_forecast_kw.given},
          price \in IF args.price_forecast_gbp_kwh = None
                     THEN [1..N -> PriceValues] ELSE {args.price_forecast_gbp_kwh.given} :
            /\ lp' = [load_forecast_kw |-> load, price_forecast_gbp_kwh |-> price]
            /\ IF Len(load) # N \/ Len(price) # N
               THEN /\ error' = HTTPException(400, "All forecasts must have the same length")
                    /\ pc' = "raising"
               ELSE /\ error' = None
                    /\ pc' = "validated"
    /\ UNCHANGED <<args, sol, result, prev, heap>>

\* lines 78-98: the optimizer and the grid checker are invoked
RouteOptimize ==
    /\ pc = "validated"
    /\ IF Len(args.solar_forecast_kw) = 0
       THEN /\ sol' = [raised |-> "ValueError"]
            /\ error' = Exception("ValueError", "numpy")
            /\ pc' = "raising"
       ELSE \/ /\ sol' = [raised |-> "RuntimeError"]
               /\ error' = Exception("RuntimeError", "Optimization failed")
               /\ pc' = "raising"
            \/ /\ sol' = [returned |-> "OptimizationResult"]
               /\ error' = None
               /\ pc' = "optimized"
    /\ UNCHANGED <<args, lp, result, prev, rng, heap>>

\* lines 100-121
RouteReturn ==
    /\ pc = "optimized"
    /\ result' = [status_code |-> 200, intervals |-> Len(args.solar_forecast_kw)]
    /\ pc' = "responded"
    /\ UNCHANGED <<args, lp, sol, error, prev, rng, heap>>

\* lines 123-124: except Exception as e catches every exception raised in
\* the try block, HTTPException included, and raises HTTPException(500)
RouteExcept ==
    /\ pc = "raising"
    /\ result' = [status_code |-> 500, detail |-> Str(error)]
    /\ pc' = "responded"
    /\ UNCHANGED <<args, lp, sol, error, prev, rng, heap>>

NextRoute == RouteValidate \/ RouteOptimize \/ RouteReturn \/ RouteExcept

SpecRoute == InitRoute /\ [][NextRoute]_vars

\* The benchmark (src/backend/routes/vpp.py, benchmark_vpp; src/app.py):
\* calculate_baseline_cost on a scenario, then optimize on the same solar,
\* load and price.  prev keeps the finished baseline call.
BenchmarkPriceValues == {0, 3, 6}
BenchmarkDegradationValues == {0, 1}

BenchmarkCall(call) ==
    \E n \in 0..MaxN :
    \E asset \in {BaseAsset, BatteryAsset(1, 2, Eff(1, 4), 0)},
       solar \in [1..n -> SolarValues], load \in [1..n -> LoadValues],
       price \in [1..n -> BenchmarkPriceValues], limit \in LimitValues,
       deg \in BenchmarkDegradationValues :
        call = Call(asset, solar, load, price, limit, deg)

InitBenchmark ==
    /\ BenchmarkCall(args)
    /\ pc = "benchmark"
    /\ lp = None
    /\ sol = None
    /\ result = None
    /\ error = None
    /\ prev = None
    /\ rng = 0
    /\ heap = None

\* the baseline call (vpp.py lines 261-265, app.py lines 383-387)
Baseline ==
    /\ pc = "benchmark"
    /\ prev' = [args |-> [solar_kw |-> args.solar_kw, load_kw |-> args.load_kw,
                          price_gbp_kwh |-> args.price_gbp_kwh],
                lp |-> None, sol |-> None,
                result |-> calculate_baseline_cost(args.solar_kw, args.load_kw,
                                                   args.price_gbp_kwh),
                error |-> None, rng |-> rng]
    /\ pc' = "called"
    /\ UNCHANGED <<args, lp, sol, result, error, rng, heap>>

NextBenchmark == Baseline \/ Next

SpecBenchmark == InitBenchmark /\ [][NextBenchmark]_vars

\* OctopusEnergyAPI.fetch_agile_prices (src/modules/live_data.py).  args is
\* the outermost call, with its date as day 0 and earlier days counted
\* upwards; lp is the stack of the calls in progress, one frame per call,
\* with the date it asks for and the number of 15-minute prices it got;
\* sol is the value a finished inner call hands to its caller; heap is the
\* log of the dates whose unit rates were requested from the API; result is
\* what the outermost call returns.  The API answers as it likes: a failure,
\* or some number of half-hour records within the window asked for.
HoursValues == {12, 24}
RecordCounts == {0, 1, 24, 47, 48}

\* a list of 96 prices, with the day they come from
Prices96(date) == [prices |-> 96, date |-> date]

InitFetch ==
    /\ \E hours \in HoursValues : args = [date |-> 0, hours |-> hours]
    /\ pc = "fetching"
    /\ lp = <<[date |-> 0, intervals |-> 0]>>
    /\ sol = None
    /\ result = None
    /\ error = None
    /\ prev = None
    /\ rng = 0
    /\ heap = <<>>

\* the call on top of the stack returns v: to its caller, or to the outside
ReturnFromTop(v) ==
    IF Len(lp) = 1
    THEN /\ result' = v
         /\ sol' = None
         /\ lp' = <<>>
         /\ pc' = "done"
    ELSE /\ sol' = v
         /\ lp' = SubSeq(lp, 1, Len(lp) - 1)
         /\ pc' = "returning"
         /\ UNCHANGED result

\* lines 141-195 and 207-229 in the call on top of the stack: the request,
\* then None on a failure or an empty answer (lines 176-178, 207-229), the
\* first 96 prices of a full answer (line 205), or the recursive call for
\* the day before (lines 192-195).  Beyond MaxDepth calls the interpreter
\* raises RecursionError, which line 225 catches: the call returns None.
FetchRequest ==
    /\ pc = "fetching"
    /\ heap' = Append(heap, lp[Len(lp)].date)
    /\ \/ ReturnFromTop(None)
       \/ \E n \in {k \in RecordCounts : k > 0 /\ k <= 2 * args.hours} :
            IF 2 * n >= 96
            THEN ReturnFromTop(Prices96(lp[Len(lp)].date))
            ELSE IF Len(lp) >= MaxDepth
            THEN ReturnFromTop(None)
            ELSE /\ lp' = Append([lp EXCEPT ![Len(lp)].intervals = 2 * n],
                                 [date |-> lp[Len(lp)].date + 1, intervals |-> 0])
                 /\ pc' = "fetching"
                 /\ UNCHANGED <<sol, result>>
    /\ UNCHANGED <<args, error, prev, rng>>

\* lines 196-205 in the caller: the inner call's 96 prices, or its own
\* prices padded to 96 with the last one
FetchResume ==
    /\ pc = "returning"
    /\ IF sol # None /\ sol.prices >= 96
       THEN ReturnFromTop(sol)
       ELSE ReturnFromTop(Prices96(lp[Len(lp)].date))
    /\ UNCHANGED <<args, error, prev, rng, heap>>

NextFetch == FetchRequest \/ FetchResume

SpecFetch == InitFetch /\ [][NextFetch]_vars

---------------------------------------------------------------------------
(* Properties *)

N == Len(args.solar_kw)

Returned == pc = "returned"

\* a float quotient lies in [lo, hi]; nan and inf (zero denominator) do not
Within(q, lo, hi) ==
    /\ q.den > 0
    /\ lo * q.den <= q.num
    /\ q.num <= hi * q.den

C2_SocWithinCapacity ==
    Returned =>
        /\ \A t \in 1..(N + 1) :
            /\ sol.x.soc[t] >= 0
            /\ sol.x.soc[t] <= args.asset.capacity_kwh * SocScale(args.asset)
        /\ \A t \in DOMAIN result.soc_trajectory_pct :
            Within(result.soc_trajectory_pct[t], 0, 100)

\* C3: in every returned result every entry of charge_schedule_kw and of
\* discharge_schedule_kw is within [0, asset.power_kw].
C3_PowerWithinLimit ==
    Returned =>
        \A t \in 1..N :
            /\ result.charge_schedule_kw[t] >= 0
            /\ result.charge_schedule_kw[t] <= args.asset.power_kw
            /\ result.discharge_schedule_kw[t] >= 0
            /\ result.discharge_schedule_kw[t] <= args.asset.power_kw

\* a returned schedule that runs at full power in both directions
C3_Witness ==
    /\ Returned
    /\ AssetValid(args.asset)
    /\ \E t \in 1..N : result.charge_schedule_kw[t] = args.asset.power_kw
    /\ \E t \in 1..N : result.discharge_schedule_kw[t] = args.asset.power_kw

\* C4: in every returned schedule, for every timestep t,
\* soc[t+1] - soc[t] = (sqrt(efficiency) * charge[t] - discharge[t] / sqrt(efficiency)) * dt.
\* With sqrt(efficiency) = a / b the equation is multiplied through by 60 * a * b.
C4_SocDynamics ==
    Returned =>
        \E a \in 1..args.asset.efficiency.n, b \in 1..args.asset.efficiency.d :
            /\ a * a = args.asset.efficiency.n
            /\ b * b = args.asset.efficiency.d
            /\ \A t \in 1..N :
                (sol.x.soc[t + 1] - sol.x.soc[t]) * dt_den * a * b =
                    (args.asset.efficiency.n * result.charge_schedule_kw[t]
                     - args.asset.efficiency.d * result.discharge_schedule_kw[t])
                    * timestep_minutes * SocScale(args.asset)

\* a lossy battery that is charged in one timestep and discharged in another
C4_Witness ==
    /\ Returned
    /\ args.asset.efficiency.n < args.asset.efficiency.d
    /\ \E t \in 1..N : result.charge_schedule_kw[t] > 0
    /\ \E t \in 1..N : result.discharge_schedule_kw[t] > 0

\* C5: a call whose solar, load and price lengths differ never returns a
\* result.
C5_MismatchedLengthsNeverReturn ==
    LengthsDiffer(args) => ~Returned

\* C6: when the solver reports failure the call ends by raising RuntimeError
\* with the solver's message and without a result; and a surplus that full
\* power charging cannot absorb makes the solver report failure.
C6_InfeasibleRaises ==
    /\ (sol # None /\ \E t \in 1..N :
            args.solar_kw[t] - args.load_kw[t] - args.asset.power_kw
                > args.grid_export_limit_kw)
        => ~sol.success
    /\ (sol # None /\ ~sol.success /\ pc # "solved") =>
        /\ pc = "raised"
        /\ error.type = "RuntimeError"
        /\ error.message[2] = sol.message
        /\ result = None

\* the call has raised because the surplus cannot be absorbed
C6_Witness ==
    /\ pc = "raised"
    /\ AssetValid(args.asset)
    /\ result = None
    /\ error.type = "RuntimeError"
    /\ \E t \in 1..N :
        args.solar_kw[t] - args.load_kw[t] - args.asset.power_kw
            > args.grid_export_limit_kw

\* the value the LP maximises: discharge earns price - wear and charge costs
\* price + wear, per kW and timestep
PenalisedValue(call, res) ==
    SumSeq([t \in 1..Len(call.solar_kw) |->
        ((call.price_gbp_kwh[t] - call.degradation_cost_gbp_kwh) * res.discharge_schedule_kw[t]
         - (call.price_gbp_kwh[t] + call.degradation_cost_gbp_kwh) * res.charge_schedule_kw[t])
        * timestep_minutes])

\* the call at hand repeats an earlier successful call with an export limit
\* that is at least as large
LimitRaised ==
    /\ Returned
    /\ prev # None
    /\ args.grid_export_limit_kw >= prev.args.grid_export_limit_kw

\* C7 as stated: with everything else fixed, net_profit_gbp under the larger
\* export limit is never smaller than under the smaller one.
C7_NetProfitMonotone ==
    LimitRaised => result.net_profit_gbp >= prev.result.net_profit_gbp

\* C7 amended: with everything else fixed, the wear-penalised value of the
\* schedule (the LP objective) under the larger export limit is never
\* smaller than under the smaller one.
C7_PenalisedValueMonotone ==
    LimitRaised => PenalisedValue(args, result) >= PenalisedValue(prev.args, prev.result)

\* a larger limit that strictly improves the penalised value
C7_Witness ==
    /\ LimitRaised
    /\ AssetValid(args.asset)
    /\ args.grid_export_limit_kw > prev.args.grid_export_limit_kw
    /\ PenalisedValue(args, result) > PenalisedValue(prev.args, prev.result)

\* C8: the returned state-of-charge trajectory of an N-timestep horizon has
\* N + 1 points.
C8_TrajectoryHasAllPoints ==
    Returned => Len(result.soc_trajectory_pct) = N + 1

\* C8 amended: the returned trajectory has N points, the initial state of
\* charge and the state of charge after each of the first N - 1 timesteps;
\* the point after the final timestep is solved for but not returned.
C8_TrajectoryOmitsFinalPoint ==
    Returned =>
        /\ Len(result.soc_trajectory_pct) = N
        /\ Len(sol.x.soc) = N + 1
        /\ \A t \in 1..N :
            result.soc_trajectory_pct[t] =
                Div(100 * sol.x.soc[t], args.asset.capacity_kwh * SocScale(args.asset))

\* a returned schedule whose final state of charge differs from every
\* returned point
C8_Witness ==
    /\ Returned
    /\ AssetValid(args.asset)
    /\ N >= 2
    /\ \A t \in 1..N : sol.x.soc[t] # sol.x.soc[N + 1]

\* C9: max_drawdown_pct is 100 minus the lowest state of charge, in percent,
\* over all N + 1 points of the solved schedule.
C9_DrawdownCoversFinalPoint ==
    Returned =>
        LET cap == args.asset.capacity_kwh * SocScale(args.asset)
            low == MinOf({sol.x.soc[t] : t \in 1..(N + 1)})
        IN  result.max_drawdown_pct = Div(100 * cap - 100 * low, cap)

\* C10: a call with an asset outside the documented ranges never produces a
\* result.
C10_InvalidAssetNeverReturns ==
    ~AssetValid(args.asset) => ~Returned

\* C11: a call with a zero-length horizon ends by raising, either before the
\* LP is built (validation) or because the solver reports no feasible point.
C11_EmptyHorizonRejected ==
    (N = 0 /\ ~LengthsDiffer(args) /\ pc \in {"returned", "raised"}) =>
        /\ pc = "raised"
        /\ \/ lp = None
           \/ (error.type = "RuntimeError" /\ ~sol.success)

\* no two timesteps' prices differ by more than twice the degradation cost
SpreadWithinWear(call) ==
    \A s \in DOMAIN call.price_gbp_kwh, t \in DOMAIN call.price_gbp_kwh :
        call.price_gbp_kwh[s] - call.price_gbp_kwh[t] <= 2 * call.degradation_cost_gbp_kwh

NoCharge == \A t \in DOMAIN result.charge_schedule_kw : result.charge_schedule_kw[t] = 0

\* C12: when no two prices differ by more than twice the degradation cost,
\* the returned schedule never charges.
C12_NoCyclingWithinSpread ==
    (Returned /\ SpreadWithinWear(args)) => NoCharge

\* every pair of prices is less than twice the degradation cost apart
SpreadBelowWear(call) ==
    \A s \in DOMAIN call.price_gbp_kwh, t \in DOMAIN call.price_gbp_kwh :
        call.price_gbp_kwh[s] - call.price_gbp_kwh[t] < 2 * call.degradation_cost_gbp_kwh

\* buying energy to charge costs money at every timestep
ChargingCosts(call) ==
    \A t \in DOMAIN call.price_gbp_kwh :
        call.price_gbp_kwh[t] + call.degradation_cost_gbp_kwh > 0

\* the export limit forces no charging: the surplus alone fits under it
SurplusWithinLimit(call) ==
    \A t \in 1..Len(call.solar_kw) :
        call.solar_kw[t] - call.load_kw[t] <= call.grid_export_limit_kw

\* C12 (amended): with prices less than twice the degradation cost apart, a
\* positive price plus degradation cost at every timestep, a round-trip
\* efficiency of at most 1 and a surplus within the export limit at every
\* timestep, the returned schedule never charges.
C12_NoCyclingUnlessForced ==
    (/\ Returned
     /\ SpreadBelowWear(args)
     /\ ChargingCosts(args)
     /\ args.asset.efficiency.n <= args.asset.efficiency.d
     /\ SurplusWithinLimit(args)) => NoCharge

\* a returned idle schedule although a cheaper and a dearer timestep exist
C12_Witness ==
    /\ Returned
    /\ N = 2
    /\ args.price_gbp_kwh[1] < args.price_gbp_kwh[2]
    /\ SpreadBelowWear(args)
    /\ ChargingCosts(args)
    /\ args.asset.efficiency.n <= args.asset.efficiency.d
    /\ SurplusWithinLimit(args)
    /\ args.asset.initial_soc_pct = 0
    /\ NoCharge

\* C13: in the four-interval scenario every returned schedule discharges
\* 2 kW in the third and fourth interval, imports at most the 1 kW load in the
\* first and second, and has a positive net profit.
C13_ScenarioSchedule ==
    (Returned /\ args = Scenario) =>
        /\ result.discharge_schedule_kw[3] = 2
        /\ result.discharge_schedule_kw[4] = 2
        /\ result.grid_export_kw[1] >= -1
        /\ result.grid_export_kw[2] >= -1
        /\ result.net_profit_gbp > 0

\* the scenario returned with the battery idle while energy is cheap
C13_Witness ==
    /\ Returned
    /\ args = Scenario
    /\ result.discharge_schedule_kw = <<0, 0, 2, 2>>
    /\ result.grid_export_kw = <<-1, -1, 1, 1>>

\* the second of two calls with the same inputs has returned
RepeatedCallReturned ==
    /\ Returned
    /\ prev # None
    /\ args = prev.args

PricedSum(f) ==
    SumSeq([t \in 1..N |-> f[t] * args.price_gbp_kwh[t] * timestep_minutes])

\* C15: in every result, revenue_gbp is the sum over the timesteps of the
\* exported power times price times timestep, cost_gbp the same sum of the
\* imported power, and net_profit_gbp their difference, which is the sum of
\* grid_export times price times timestep.
C15_RevenueCostFormulas ==
    Returned =>
        LET export == result.grid_export_kw
        IN  /\ result.revenue_gbp = PricedSum([t \in 1..N |-> Max0(export[t])])
            /\ result.cost_gbp = PricedSum([t \in 1..N |-> Max0(-export[t])])
            /\ result.net_profit_gbp = result.revenue_gbp - result.cost_gbp
            /\ result.net_profit_gbp = PricedSum([t \in 1..N |-> export[t]])

\* C16: whenever all values of the series discharge[t] * price[t] are equal,
\* the Sharpe ratio returned is exactly 0.
C16_ZeroVarianceSharpeZero ==
    LET returns == Returns(args.discharge, args.price)
    IN  (Returned /\ \A i, j \in DOMAIN returns : returns[i] = returns[j]) =>
            result = FloatZero

\* C17: in every returned schedule the first state-of-charge point is
\* initial_soc_pct / 100 * capacity_kwh, and the first entry of
\* soc_trajectory_pct is initial_soc_pct.
C17_FirstPointIsInitialSoc ==
    Returned =>
        /\ result.soc_kwh[1] = InitialSocKwh(args.asset)
        /\ result.soc_trajectory_pct[1] = FloatOfRatio(args.asset.initial_soc_pct, 1)

\* C18: the report holds exactly one violation record for each timestep
\* whose export is strictly above the limit and none for any other, in
\* increasing timestep order, each with excess_kw = export - limit, and
\* violation_count is the number of records.
C18_OneRecordPerExceedance ==
    Returned =>
        LET v == result.violations
            exports == args.grid_export_kw
            limit == args.grid_export_limit_kw
        IN  /\ \A t \in DOMAIN exports :
                Cardinality({i \in DOMAIN v : v[i].timestep = t - 1}) =
                    IF exports[t] > limit THEN 1 ELSE 0
            /\ \A i \in DOMAIN v : v[i].timestep + 1 \in DOMAIN exports
            /\ \A i \in DOMAIN v, j \in DOMAIN v : i < j => v[i].timestep < v[j].timestep
            /\ \A i \in DOMAIN v : v[i].excess_kw = exports[v[i].timestep + 1] - limit
            /\ result.violation_count = Len(v)

\* an export equal to the limit passes, the next one is recorded
C18_Witness ==
    /\ Returned
    /\ Len(args.grid_export_kw) = 2
    /\ args.grid_export_kw[1] = args.grid_export_limit_kw
    /\ args.grid_export_kw[2] > args.grid_export_limit_kw
    /\ Len(result.violations) = 1
    /\ result.violations[1].timestep = 1

\* C19: a violation record is 'critical' exactly when its excess over the
\* limit is strictly above 0.5 kW, and 'warning' otherwise.
C19_CriticalAboveHalfKw ==
    Returned =>
        \A i \in DOMAIN result.violations :
            LET v == result.violations[i]
                excess == args.grid_export_kw[v.timestep + 1] - args.grid_export_limit_kw
            IN  /\ v.severity \in {"critical", "warning"}
                /\ (v.severity = "critical") <=> (excess > 2)   \* 0.5 kW

\* a violation of exactly 0.5 kW reported as a warning
C19_Witness ==
    /\ Returned
    /\ \E i \in DOMAIN result.violations :
        /\ result.violations[i].excess_kw = 2
        /\ result.violations[i].severity = "warning"
    /\ \E i \in DOMAIN result.violations :
        result.violations[i].severity = "critical"

\* C20: g99_compliant is true exactly when the report has no violation and
\* the voltage rise stays strictly below 10 % of nominal voltage at every
\* timestep.
C20_CompliantIffNoViolationLowVoltage ==
    Returned =>
        (result.g99_compliant <=>
            /\ Len(result.violations) = 0
            /\ \A t \in DOMAIN args.grid_export_kw :
                Max0(args.grid_export_kw[t]) * line_resistance_mohm * 100
                    < 10 * 4 * nominal_voltage_v * nominal_voltage_v)

\* no export above the limit, yet not compliant: the voltage rise alone
C20_Witness ==
    /\ Returned
    /\ Len(result.violations) = 0
    /\ ~result.g99_compliant

\* C21: peak_grid_stress is the largest export divided by the limit, clamped
\* to [0,1]: a number between 0 and 1, equal to 1 whenever some timestep
\* exceeds the limit.
C21_PeakStressClamped ==
    Returned =>
        LET peak == result.peak_grid_stress
            exports == args.grid_export_kw
            limit == args.grid_export_limit_kw
            largest == MaxOf({exports[t] : t \in DOMAIN exports})
            clamped == IF largest < 0 THEN 0 ELSE IF largest > limit THEN limit ELSE largest
        IN  /\ peak.den > 0
            /\ 0 <= peak.num /\ peak.num <= peak.den
            /\ limit > 0 => peak.num * limit = clamped * peak.den
            /\ result.violation_count > 0 => peak.num = peak.den

\* C22: check_violations never raises, whatever the export series, the empty
\* one included: every call ends with the structured report.
C22_CheckerNeverRaises ==
    pc # "called" =>
        /\ pc = "returned"
        /\ error = None
        /\ DOMAIN result = {"violations", "violation_count", "max_voltage_rise_V",
                            "max_voltage_rise_pct", "peak_grid_stress",
                            "times_at_limit", "g99_compliant"}

\* C23: calculate_baseline_cost returns cost = sum of max(0, load - solar) *
\* price * dt, revenue = half the sum of max(0, solar - load) * price * dt
\* and net = revenue - cost (amounts in half money units); when solar equals
\* load at every timestep the three are exactly 0.
C23_BaselineFormulas ==
    Returned =>
        LET solar == args.solar_kw
            load == args.load_kw
            price == args.price_gbp_kwh
            imported == SumSeq([t \in DOMAIN solar |->
                            Max0(load[t] - solar[t]) * price[t] * timestep_minutes])
            exported == SumSeq([t \in DOMAIN solar |->
                            Max0(solar[t] - load[t]) * price[t] * timestep_minutes])
        IN  /\ result.cost_gbp = 2 * imported
            /\ result.revenue_gbp = exported        \* 0.5 * (2 * exported)
            /\ result.net_gbp = result.revenue_gbp - result.cost_gbp
            /\ (\A t \in DOMAIN solar : solar[t] = load[t]) =>
                    /\ result.cost_gbp = 0
                    /\ result.revenue_gbp = 0
                    /\ result.net_gbp = 0

\* a baseline that exports in one timestep and imports in the other, both
\* at positive prices
C23_Witness ==
    /\ Returned
    /\ Len(args.solar_kw) = 2
    /\ args.solar_kw[1] > args.load_kw[1]
    /\ args.solar_kw[2] < args.load_kw[2]
    /\ result.cost_gbp > 0
    /\ result.revenue_gbp > 0
    /\ 2 * result.revenue_gbp < result.cost_gbp

\* C24: for one model and a fixed total of discharged energy, the cost of
\* discharging it in a single timestep is at least the cost of any split of
\* it over several timesteps, and strictly more when the split has two or
\* more non-zero timesteps; doubling a one-timestep discharge quadruples
\* its cost.
C24_DepthPenalisedSuperLinearly ==
    (Returned /\ prev # None) =>
        LET before == prev.args.discharge_kw
            now == args.discharge_kw
            nonzero == {t \in DOMAIN before : before[t] # 0}
        IN  /\ result.den > 0 /\ prev.result.den > 0
            /\ now = <<SumSeq(before)>> =>
                    /\ result.num * prev.result.den >= prev.result.num * result.den
                    /\ Cardinality(nonzero) >= 2 =>
                            result.num * prev.result.den > prev.result.num * result.den
            /\ (Len(before) = 1 /\ now = <<2 * before[1]>>) =>
                    result.num * prev.result.den = 4 * prev.result.num * result.den

\* a split over two non-zero timesteps costed below its total discharged at once
C24_Witness ==
    /\ Returned /\ prev # None
    /\ Len(prev.args.discharge_kw) = 2
    /\ prev.args.discharge_kw[1] > 0 /\ prev.args.discharge_kw[2] > 0
    /\ args.discharge_kw = <<prev.args.discharge_kw[1] + prev.args.discharge_kw[2]>>
    /\ args.self.capacity = 135
    /\ result.num * prev.result.den > prev.result.num * result.den

\* the result of call p with its four lists read from the store
ResultOf(p) ==
    [result[p] EXCEPT !.charge_schedule_kw = heap[result[p].charge_schedule_kw],
                      !.discharge_schedule_kw = heap[result[p].discharge_schedule_kw],
                      !.soc_trajectory_pct = heap[result[p].soc_trajectory_pct],
                      !.grid_export_kw = heap[result[p].grid_export_kw]]

\* the addresses of the four lists of the result of call p
ListsOf(p) ==
    IF pc[p] # "returned" THEN {}
    ELSE {result[p].charge_schedule_kw, result[p].discharge_schedule_kw,
          result[p].soc_trajectory_pct, result[p].grid_export_kw}

\* what call p gives when it runs alone on the inputs now in the store
AloneOutcomes(p) ==
    LET call == CallOn(heap, p)
        answers == linprog(BuildLP(call))
    IN  IF Len(call.solar_kw) = 0
        THEN {[error |-> Exception("ValueError", "numpy")]}
        ELSE {[result |-> OptimizationResult(call, r, solve_time)] :
                r \in {a \in answers : a.success}, solve_time \in SolveTimes}
             \cup {[error |-> Exception("RuntimeError", <<"Optimization failed: ", r.message>>)] :
                r \in {a \in answers : ~a.success}}

\* every finished call has an outcome of its run alone, in lists of its own
Isolated ==
    /\ \A p \in Procs :
        /\ pc[p] = "returned" => [result |-> ResultOf(p)] \in AloneOutcomes(p)
        /\ pc[p] = "raised" => [error |-> error[p]] \in AloneOutcomes(p)
        /\ pc[p] = "returned" => Cardinality(ListsOf(p)) = 4
        /\ \A a \in ListsOf(p) : \A f \in DOMAIN InputAddrs : a # InputAddrs[f]
    /\ \A p \in Procs, q \in Procs : p # q => ListsOf(p) \cap ListsOf(q) = {}

\* C25: in every interleaving of two optimize calls with different inputs,
\* no step changes the optimizer, an input object, an argument or a list
\* already returned, and each call ends with an outcome of its run alone,
\* in lists that alias neither the inputs nor the other call's result.
C25_ConcurrentCallsIsolated ==
    /\ [][(\A a \in DOMAIN heap : heap'[a] = heap[a]) /\ args' = args]_vars
    /\ []Isolated

\* both calls have returned, with different schedules of grid export
C25_Witness ==
    /\ DOMAIN pc = Procs
    /\ \A p \in Procs : pc[p] = "returned"
    /\ ResultOf(1).grid_export_kw # ResultOf(2).grid_export_kw
    /\ result[2].grid_export_kw < result[1].grid_export_kw

\* every price is non-negative
PricesNonNegative(call) ==
    \A t \in DOMAIN call.price_gbp_kwh : call.price_gbp_kwh[t] >= 0

\* C26: with non-negative prices, a positive degradation cost and a surplus
\* within the export limit at every timestep, no returned schedule charges
\* and discharges in the same timestep.
C26_NoSimultaneousChargeDischarge ==
    (/\ Returned
     /\ PricesNonNegative(args)
     /\ args.degradation_cost_gbp_kwh > 0
     /\ SurplusWithinLimit(args)) =>
        \A t \in DOMAIN result.charge_schedule_kw :
            result.charge_schedule_kw[t] = 0 \/ result.discharge_schedule_kw[t] = 0

\* the request carries a load or a price forecast whose length is not that
\* of the solar forecast
ForecastLengthsDiffer ==
    \/ /\ args.load_forecast_kw # None
       /\ Len(args.load_forecast_kw.given) # Len(args.solar_forecast_kw)
    \/ /\ args.price_forecast_gbp_kwh # None
       /\ Len(args.price_forecast_gbp_kwh.given) # Len(args.solar_forecast_kw)

\* C27: a request whose load or price forecast differs in length from the
\* solar forecast is answered with status 400 and the detail 'All forecasts
\* must have the same length', and the optimizer is not invoked.
C27_MismatchAnswered400 ==
    (pc = "responded" /\ ForecastLengthsDiffer) =>
        /\ result.status_code = 400
        /\ result.detail = "All forecasts must have the same length"
        /\ sol = None

\* C28: with non-negative prices, a non-negative degradation cost and a
\* surplus within the export limit at every timestep, the net profit of the
\* optimised schedule is at least the net of the baseline on the same
\* solar, load and price (the baseline's amounts are in half money units).
C28_ProfitAtLeastBaseline ==
    (/\ Returned
     /\ PricesNonNegative(args)
     /\ args.degradation_cost_gbp_kwh >= 0
     /\ SurplusWithinLimit(args)) =>
        2 * result.net_profit_gbp >= prev.result.net_gbp

\* a schedule that earns strictly more than the baseline by discharging,
\* and a baseline that both pays for import and is paid for export
C28_Witness ==
    /\ Returned
    /\ PricesNonNegative(args)
    /\ SurplusWithinLimit(args)
    /\ N = 2
    /\ prev.result.cost_gbp > 0
    /\ prev.result.revenue_gbp > 0
    /\ \E t \in 1..N : result.discharge_schedule_kw[t] > 0
    /\ 2 * result.net_profit_gbp > prev.result.net_gbp

\* the preconditions of C29: a horizon of at least one timestep on three
\* series of that length, a valid asset, a surplus within the export limit
Solvable(call) ==
    /\ Len(call.solar_kw) >= 1
    /\ ~LengthsDiffer(call)
    /\ AssetValid(call.asset)
    /\ SurplusWithinLimit(call)

\* C29: for N >= 1, a valid asset and a surplus within the export limit at
\* every timestep, optimize never raises: the LP is built, the solver
\* reports success, and the call returns a result.
C29_SolvableNeverRaises ==
    Solvable(args) =>
        /\ pc # "raised"
        /\ error = None
        /\ pc = "solved" => sol.success
        /\ pc = "returned" => result # None

\* a full battery with the surplus exactly at the limit in both timesteps:
\* the idle schedule is the only feasible one, and it is returned
C29_Witness ==
    /\ Returned
    /\ Solvable(args)
    /\ N = 2
    /\ args.asset.initial_soc_pct = 100
    /\ \A t \in 1..N : args.solar_kw[t] - args.load_kw[t] = args.grid_export_limit_kw
    /\ \A t \in 1..N : result.charge_schedule_kw[t] = 0 /\ result.discharge_schedule_kw[t] = 0

\* C30: fetch_agile_prices asks the API for the requested day and, when
\* that day has fewer than 96 prices, for the one previous day only, never
\* for an earlier one; it then returns None or a list of exactly 96 prices.
C30_FallsBackOneDayOnly ==
    /\ \A i \in DOMAIN heap : heap[i] <= 1
    /\ Len(heap) <= 2
    /\ pc = "done" => (result = None \/ result.prices = 96)

====
